---- MODULE Spec2Model ----
(***************************************************************************)
(* A model of scripts/render_part.py: one invocation of main(), from the   *)
(* parsed arguments to the exit of the process.  Blender and the Freestyle *)
(* SVG exporter are external: what they hand to the script (the imported   *)
(* scene, the rendered SVG file) is chosen nondeterministically from small *)
(* sets; everything the script itself computes is computed as the script   *)
(* computes it.                                                            *)
(*                                                                         *)
(* Numbers.  fill_opacity, alpha and padding are held in hundredths        *)
(* (40 is 0.4), lengths are integers, and every quotient the script forms  *)
(* is held as an exact fraction <<numerator, denominator>>.                *)
(***************************************************************************)
EXTENDS Integers, Sequences, FiniteSets, TLC

VARIABLES
    pc,          \* position of main()
    args,        \* the dict parse_args() returned
    objects,     \* scene.objects
    cam,         \* the camera data block and object made by setup_camera
    linesets,    \* view_layer.freestyle_settings.linesets
    rendered,    \* top-level children of the SVG as the exporter wrote it
    svg_exists,  \* os.path.exists(expected_svg) after the render
    svg,         \* top-level children of the root of the file at output_svg
    stages,      \* the post-processing stages that have run, in order
    stdout,      \* what the script has printed, in order
    exit_code    \* -1 while running, then the exit status of the process

vars == <<pc, args, objects, cam, linesets, rendered, svg_exists, svg, stages,
          stdout, exit_code>>

\* ------------------------------------------------------------------ bounds

\* The longest list of top-level children the exporter is taken to write.
MaxChildren == 3

\* ----------------------------------------------------------------- helpers

Range(s) == {s[i] : i \in 1..Len(s)}

Max2(a, b) == IF a >= b THEN a ELSE b

SetMin(S) == CHOOSE x \in S : \A y \in S : x <= y

SetMax(S) == CHOOSE x \in S : \A y \in S : x >= y

\* A value the script has not assigned (the host's default stays in place).
Unset == <<>>

\* One hundredth is the unit of fill_opacity, alpha and padding.
One == 100

\* ------------------------------------------------------------- parse_args

\* argv[12], fill_opacity, in hundredths.
FillOpacities == {0, 40, One}

\* argv[11], edge_types, as the list of its comma-separated tokens; the
\* literal "none" is the one-token list <<"none">>.
EdgeTypeArgs ==
    { <<"none">>,
      <<"silhouette", "crease", "border">>,
      <<"contour", "sketchy", "edge_mark">> }

\* argv[3], thickness.
Thicknesses == {1, 2}

\* argv[9], padding, in hundredths; 0 <= padding < 0.5.
Paddings == {3, 25}

\* argv[7], argv[8]: the render resolution <<width, height>>.
Resolutions == { <<1, 1>>, <<2, 1>> }

\* argv[5], argv[6]: camera latitude and longitude in degrees.  The model
\* keeps to the angles whose sine and cosine are integers and whose look-at
\* basis is fixed by the up axis (latitude 0).
CameraLats == {0}

CameraLons == {0, 90}

Args ==
    [ thickness    : Thicknesses,
      fill_color   : {"currentColor"},
      camera_lat   : CameraLats,
      camera_lon   : CameraLons,
      resolution_x : {r[1] : r \in Resolutions},
      resolution_y : {r[2] : r \in Resolutions},
      padding      : Paddings,
      crease_angle : {135},
      edge_types   : EdgeTypeArgs,
      fill_opacity : FillOpacities ]

\* ------------------------------------------------------------------ scene

NoCamera ==
    [ name |-> "", type |-> "", clip_start |-> Unset, clip_end |-> Unset,
      location |-> Unset, ortho_scale |-> Unset, shift_x |-> Unset,
      shift_y |-> Unset, track_target |-> Unset ]

\* An object of the scene: its type, its local bounding box (two opposite
\* corners) and its world transform, here a translation.
Mesh(lo, hi, at) == [type |-> "MESH", lo |-> lo, hi |-> hi, at |-> at]

Empty(at) == [type |-> "EMPTY", lo |-> <<0, 0, 0>>, hi |-> <<0, 0, 0>>, at |-> at]

\* What the import leaves in the scene once main() has joined the meshes:
\* at most one mesh, and possibly objects that are no mesh.
Scenes ==
    { <<>>,
      << Empty(<<1, 1, 1>>) >>,
      << Mesh(<<0, 0, 0>>, <<2, 2, 2>>, <<0, 0, 0>>) >>,
      << Mesh(<<1, 1, 1>>, <<1, 1, 1>>, <<0, 0, 0>>) >>,
      << Mesh(<<0, 0, 0>>, <<0, 2, 0>>, <<0, 0, 0>>) >>,
      << Empty(<<9, 9, 9>>), Mesh(<<0, 0, 0>>, <<4, 2, 2>>, <<1, 0, 3>>) >> }

\* obj.bound_box: the eight corners of the local bounding box.
bound_box(obj) ==
    << <<obj.lo[1], obj.lo[2], obj.lo[3]>>, <<obj.lo[1], obj.lo[2], obj.hi[3]>>,
       <<obj.lo[1], obj.hi[2], obj.hi[3]>>, <<obj.lo[1], obj.hi[2], obj.lo[3]>>,
       <<obj.hi[1], obj.lo[2], obj.lo[3]>>, <<obj.hi[1], obj.lo[2], obj.hi[3]>>,
       <<obj.hi[1], obj.hi[2], obj.hi[3]>>, <<obj.hi[1], obj.hi[2], obj.lo[3]>> >>

\* obj.matrix_world @ corner
matrix_world(obj, corner) ==
    <<corner[1] + obj.at[1], corner[2] + obj.at[2], corner[3] + obj.at[3]>>

\* The gathering loop without its test of obj.type.
RECURSIVE all_corners_any_type(_)
all_corners_any_type(objs) ==
    IF objs = <<>> THEN <<>>
    ELSE LET obj == Head(objs)
         IN  [i \in 1..8 |-> matrix_world(obj, bound_box(obj)[i])]
                \o all_corners_any_type(Tail(objs))

\* The loop that gathers all_corners.
RECURSIVE all_corners(_)
all_corners(objs) ==
    IF objs = <<>> THEN <<>>
    ELSE LET obj == Head(objs)
             own == IF obj.type = "MESH"
                    THEN [i \in 1..8 |-> matrix_world(obj, bound_box(obj)[i])]
                    ELSE <<>>
         IN  own \o all_corners(Tail(objs))

\* ----------------------------------------------------------- setup_camera

\* math.cos and math.sin at the multiples of a right angle.
Cos(deg) == CASE deg % 360 = 0 -> 1 [] deg % 360 = 180 -> -1 [] OTHER -> 0

Sin(deg) == CASE deg % 360 = 90 -> 1 [] deg % 360 = 270 -> -1 [] OTHER -> 0

\* The unit vector from the centre towards the camera.
direction(lat, lon) ==
    <<Cos(lat) * Sin(lon), (0 - Cos(lat)) * Cos(lon), Sin(lat)>>

Dot(u, v) == u[1] * v[1] + u[2] * v[2] + u[3] * v[3]

\* The TRACK_TO constraint (track -Z, up Y): the camera's local X and Y
\* axes in world coordinates, for a horizontal viewing direction d.
cam_right(d) == <<0 - d[2], d[1], 0>>

cam_up(d) == <<0, 0, d[1] * d[1] + d[2] * d[2]>>

\* Twice the coordinates of cam_matrix_inv @ corner (twice, because the
\* centre of the bounding box has half-integer coordinates).
view2(corner, loc2, d) ==
    LET rel2 == <<2 * corner[1] - loc2[1], 2 * corner[2] - loc2[2],
                  2 * corner[3] - loc2[3]>>
    IN  <<Dot(cam_right(d), rel2), Dot(cam_up(d), rel2), Dot(d, rel2)>>

\* scale = max(ext_x / aspect, ext_y) / (1 - 2 * padding), as a fraction;
\* ext2_x and ext2_y are twice the extents, aspect is res_x / res_y.
ortho_scale(ext2_x, ext2_y, res_x, res_y, padding) ==
    << Max2(ext2_x * res_y, ext2_y * res_x) * One,
       2 * res_x * (One - 2 * padding) >>

\* -center_v / (scale * aspect_factor) as a fraction, where center_v is
\* sum2 / 4 and aspect_factor is an / ad.  Called with scale nonzero.
shift(sum2, scale, an, ad) ==
    << (0 - sum2) * scale[2] * ad, 4 * scale[1] * an >>

\* The camera after setup_camera, and how the call ended: "returned",
\* "skipped" (no mesh: the early return) or "ZeroDivisionError".
setup_camera(objs, a) ==
    LET base == [ NoCamera EXCEPT !.name = "IsoCam", !.type = "ORTHO",
                                  !.clip_start = <<1, 10000>>,
                                  !.clip_end = <<100000, 1>> ]
        corners == all_corners(objs)
    IN  IF corners = <<>>
        THEN [cam |-> base, end |-> "skipped"]
        ELSE
        LET xs == {corners[i][1] : i \in 1..Len(corners)}
            ys == {corners[i][2] : i \in 1..Len(corners)}
            zs == {corners[i][3] : i \in 1..Len(corners)}
            center2 == <<SetMin(xs) + SetMax(xs), SetMin(ys) + SetMax(ys),
                         SetMin(zs) + SetMax(zs)>>
            size == Max2(Max2(SetMax(xs) - SetMin(xs), SetMax(ys) - SetMin(ys)),
                         SetMax(zs) - SetMin(zs))
            d == direction(a.camera_lat, a.camera_lon)
            distance == size * 5
            loc2 == <<center2[1] + 2 * d[1] * distance,
                      center2[2] + 2 * d[2] * distance,
                      center2[3] + 2 * d[3] * distance>>
            vxs == {view2(corners[i], loc2, d)[1] : i \in 1..Len(corners)}
            vys == {view2(corners[i], loc2, d)[2] : i \in 1..Len(corners)}
            ext2_x == SetMax(vxs) - SetMin(vxs)
            ext2_y == SetMax(vys) - SetMin(vys)
            scale == ortho_scale(ext2_x, ext2_y, a.resolution_x,
                                 a.resolution_y, a.padding)
            placed == [ base EXCEPT !.location = <<loc2, 2>>,
                                    !.track_target = <<center2, 2>>,
                                    !.ortho_scale = scale ]
        IN  IF scale[1] = 0
            THEN [cam |-> placed, end |-> "ZeroDivisionError"]
            ELSE [cam |-> [ placed EXCEPT
                            !.shift_x = shift(SetMin(vxs) + SetMax(vxs), scale,
                                              a.resolution_x, a.resolution_y),
                            !.shift_y = shift(SetMin(vys) + SetMax(vys), scale,
                                              1, 1) ],
                  end |-> "returned"]

\* -------------------------------------------------------- setup_freestyle

\* The edge categories a lineset selects by, one boolean each.
Categories ==
    { "silhouette", "crease", "border", "contour", "external_contour",
      "edge_mark", "material_boundary" }

\* A lineset the host holds before the script configures Freestyle.
HostLineSet ==
    [ name |-> "LineSet",
      select |-> [c \in Categories |-> c \in {"silhouette", "border", "crease"}],
      select_by_visibility |-> "True", visibility |-> "VISIBLE",
      edge_type_combination |-> "OR", edge_type_negation |-> "INCLUSIVE",
      linestyle |-> [ thickness |-> 3, color |-> <<0, 0, 0>>, alpha |-> One,
                      thickness_position |-> "CENTER",
                      use_export_strokes |-> "default",
                      use_export_fills |-> "default" ] ]

\* enabled = set(edge_types.split(",")) if edge_types != "none" else set()
enabled_types(edge_types) ==
    IF edge_types = <<"none">> THEN {} ELSE Range(edge_types)

\* while len(linesets) > 0: linesets.remove(linesets[0])
RECURSIVE clear_linesets(_)
clear_linesets(ls) == IF Len(ls) > 0 THEN clear_linesets(Tail(ls)) ELSE ls

\* The hidden-edge alpha without the case of a fully transparent fill.
hidden_alpha_plain(fill_opacity) == fill_opacity

\* The alpha of the hidden-edge line style.
hidden_alpha(fill_opacity) == IF fill_opacity = 0 THEN One ELSE fill_opacity

\* Whether the second lineset, for occluded edges, is created.
wants_hidden_lineset(fill_opacity) == fill_opacity < One

\* The lineset "Edges" as setup_freestyle configures it.
edges_lineset(enabled, thickness) ==
    [ name |-> "Edges",
      select |-> [c \in Categories |-> c \in enabled],
      select_by_visibility |-> "True", visibility |-> "VISIBLE",
      edge_type_combination |-> "OR", edge_type_negation |-> "INCLUSIVE",
      linestyle |-> [ thickness |-> thickness, color |-> <<0, 0, 0>>,
                      alpha |-> One, thickness_position |-> "CENTER",
                      use_export_strokes |-> "default",
                      use_export_fills |-> "default" ] ]

\* The lineset "HiddenEdges" as setup_freestyle configures it.
hidden_lineset(enabled, thickness, fill_opacity) ==
    [ name |-> "HiddenEdges",
      select |-> [c \in Categories |-> c \in enabled],
      select_by_visibility |-> "True", visibility |-> "HIDDEN",
      edge_type_combination |-> "OR", edge_type_negation |-> "INCLUSIVE",
      linestyle |-> [ thickness |-> thickness, color |-> <<0, 0, 0>>,
                      alpha |-> hidden_alpha(fill_opacity),
                      thickness_position |-> "CENTER",
                      use_export_strokes |-> "True",
                      use_export_fills |-> "False" ] ]

\* The linesets after setup_freestyle.
setup_freestyle(ls, a) ==
    LET enabled == enabled_types(a.edge_types)
        visible == Append(clear_linesets(ls), edges_lineset(enabled, a.thickness))
    IN  IF wants_hidden_lineset(a.fill_opacity)
        THEN Append(visible, hidden_lineset(enabled, a.thickness, a.fill_opacity))
        ELSE visible

\* ------------------------------------------------------- setup_svg_export

\* The linesets after setup_svg_export(scene, linesets["Edges"]).
setup_svg_export(ls) ==
    LET first == SetMin({i \in 1..Len(ls) : ls[i].name = "Edges"})
    IN  [ ls EXCEPT ![first].linestyle.use_export_strokes = "True",
                    ![first].linestyle.use_export_fills = "True" ]

\* ------------------------------------------------------- the SVG document

\* The id attribute of a top-level element, as the list of its fragments:
\* s occurs in an id when the fragments of s occur in it side by side.
HiddenEdgesId == <<"RenderLayer_", "Hidden", "Edges">>

EdgesId == <<"RenderLayer_", "Edges">>

\* No id attribute: child.get("id", "") is the empty string.
NoId == <<>>

Ids == {HiddenEdgesId, EdgesId, NoId}

\* "s in child_id"
Contains(s, child_id) ==
    \E i \in 1..Len(child_id) :
        /\ i + Len(s) - 1 <= Len(child_id)
        /\ SubSeq(child_id, i, i + Len(s) - 1) = s

\* A top-level group as the exporter writes it; key tells the elements of
\* one document apart (the identity of the parsed Element).
RawElement(id, key) ==
    [ tag |-> "g", id |-> id, key |-> key, size |-> "",
      fill |-> IF id = EdgesId THEN "rgb(255, 255, 255)"
               ELSE IF id = HiddenEdgesId THEN "none" ELSE "rgb(255,255,255)",
      stroke |-> IF id = NoId THEN "rgb(9,9,9)" ELSE "rgb(0, 0, 0)",
      fill_opacity |-> IF id = HiddenEdgesId THEN <<>> ELSE <<"1.0">> ]

\* The documents the exporter may write.
RawDocuments ==
    UNION { { [i \in 1..n |-> RawElement(ids[i], i)] : ids \in [1..n -> Ids] }
            : n \in 0..MaxChildren }

\* list.index: the first position of el in children, 0 when absent.
index(children, el) ==
    IF \E i \in 1..Len(children) : children[i] = el
    THEN SetMin({i \in 1..Len(children) : children[i] = el})
    ELSE 0

\* f"{fill_opacity:.4f}" for 0 <= fill_opacity < 10, as its characters.
Digit(n) == <<"0", "1", "2", "3", "4", "5", "6", "7", "8", "9">>[n + 1]

format4f(fill_opacity) ==
    << Digit(fill_opacity \div One), ".", Digit((fill_opacity \div 10) % 10),
       Digit(fill_opacity % 10), "0", "0" >>

\* re.sub of the white fill and of the black stroke, on one element.
recolor(el, fill_color) ==
    [ el EXCEPT
      !.fill = IF @ \in {"rgb(255,255,255)", "rgb(255, 255, 255)"}
               THEN fill_color ELSE @,
      !.stroke = IF @ \in {"rgb(0,0,0)", "rgb(0, 0, 0)"}
                 THEN "currentColor" ELSE @ ]

\* re.sub of fill-opacity="1.0", on one element.
stamp_opacity(el, fill_opacity) ==
    [ el EXCEPT !.fill_opacity = IF @ = <<"1.0">> THEN format4f(fill_opacity)
                                 ELSE @ ]

\* The lookup loop testing for "Edges" before "HiddenEdges".
RECURSIVE find_groups_edges_first(_, _)
find_groups_edges_first(children, n) ==
    IF n = 0 THEN [hidden |-> 0, edges |-> 0]
    ELSE LET before == find_groups_edges_first(children, n - 1)
             child_id == children[n].id
         IN  IF Contains(<<"Edges">>, child_id)
             THEN [before EXCEPT !.edges = n]
             ELSE IF Contains(<<"Hidden", "Edges">>, child_id)
                  THEN [before EXCEPT !.hidden = n]
                  ELSE before

\* The loop of _reorder_svg_hidden_edges: the positions of hidden_group and
\* edges_group in children after the first n children (0 is None).
RECURSIVE find_groups(_, _)
find_groups(children, n) ==
    IF n = 0 THEN [hidden |-> 0, edges |-> 0]
    ELSE LET before == find_groups(children, n - 1)
             child_id == children[n].id
         IN  IF Contains(<<"Hidden", "Edges">>, child_id)
             THEN [before EXCEPT !.hidden = n]
             ELSE IF Contains(<<"Edges">>, child_id)
                  THEN [before EXCEPT !.edges = n]
                  ELSE before

\* root.remove(el)
remove(children, el) ==
    LET i == index(children, el)
    IN  SubSeq(children, 1, i - 1) \o SubSeq(children, i + 1, Len(children))

\* root.insert(at, el), at counted from 0
insert(children, at, el) ==
    SubSeq(children, 1, at) \o <<el>> \o SubSeq(children, at + 1, Len(children))

\* The move with hidden_group put back at the front of the root.
move_before_front(children, hidden_group, edges_group) ==
    insert(remove(children, hidden_group), 0, hidden_group)

\* The move done as an exchange of the two groups.
move_before_swap(children, hidden_group, edges_group) ==
    [ i \in 1..Len(children) |->
        IF children[i] = hidden_group THEN edges_group
        ELSE IF children[i] = edges_group THEN hidden_group
        ELSE children[i] ]

\* Lines 327-331: hidden_group taken out and put back before edges_group.
move_before(children, hidden_group, edges_group) ==
    LET rest == remove(children, hidden_group)
        edges_idx == index(rest, edges_group) - 1
    IN  insert(rest, edges_idx, hidden_group)

\* The order test that never finds the order right.
already_ordered_never(hidden_idx, edges_idx) == FALSE

\* Whether the stage leaves the file alone because the order is right.
already_ordered(hidden_idx, edges_idx) == hidden_idx <= edges_idx

\* _reorder_svg_hidden_edges: the children afterwards and what it printed.
reorder_svg_hidden_edges(children) ==
    LET found == find_groups(children, Len(children))
    IN  IF found.hidden = 0 \/ found.edges = 0
        THEN [children |-> children, printed |-> "reordering skipped: group not found"]
        ELSE
        LET hidden_group == children[found.hidden]
            edges_group == children[found.edges]
            hidden_idx == index(children, hidden_group)
            edges_idx == index(children, edges_group)
        IN  IF already_ordered(hidden_idx, edges_idx)
            THEN [children |-> children,
                  printed |-> "reordering skipped: already before"]
            ELSE [children |-> move_before(children, hidden_group, edges_group),
                  printed |-> "reordered"]

\* Whether postprocess_svg stamps the opacity and calls the reorder stage.
is_translucent(fill_opacity) == fill_opacity < One

\* postprocess_svg: the children afterwards, the stages run, the prints.
postprocess_svg(children, fill_color, fill_opacity) ==
    LET recolored == [i \in 1..Len(children) |-> recolor(children[i], fill_color)]
        stamped == [i \in 1..Len(children) |->
                        stamp_opacity(recolored[i], fill_opacity)]
    IN  IF is_translucent(fill_opacity)
        THEN LET r == reorder_svg_hidden_edges(stamped)
             IN  [children |-> r.children,
                  stages |-> <<"recolor", "opacity", "reorder">>,
                  printed |-> <<r.printed>>]
        ELSE [children |-> recolored, stages |-> <<"recolor">>, printed |-> <<>>]

\* The rectangle add_svg_background makes.
Background ==
    [ tag |-> "rect", id |-> NoId, key |-> 0, size |-> "100%", fill |-> "white",
      stroke |-> "", fill_opacity |-> <<>> ]

\* The background appended after the last child.
add_svg_background_append(children) == Append(children, Background)

\* add_svg_background: root.insert(0, bg)
add_svg_background(children) == insert(children, 0, Background)

\* ------------------------------------------------------------------- main

Init ==
    /\ pc = "import"
    /\ args \in Args
    /\ objects = <<>>
    /\ cam = NoCamera
    /\ linesets = <<HostLineSet>>
    /\ rendered = <<>>
    /\ svg_exists = FALSE
    /\ svg = <<>>
    /\ stages = <<>>
    /\ stdout = <<>>
    /\ exit_code = -1

\* Lines 355-404: the scene is cleared, the part imported, its meshes joined.
ImportPart ==
    /\ pc = "import"
    /\ \E scene \in Scenes : objects' = scene
    /\ pc' = "camera"
    /\ stdout' = Append(stdout, "Importing")
    /\ UNCHANGED <<args, cam, linesets, rendered, svg_exists, svg, stages,
                   exit_code>>

\* Lines 406-410: setup_camera; a ZeroDivisionError leaves main().
SetupCamera ==
    /\ pc = "camera"
    /\ LET r == setup_camera(objects, args)
       IN  /\ cam' = r.cam
           /\ pc' = IF r.end = "ZeroDivisionError" THEN "raised" ELSE "freestyle"
           /\ stdout' = IF r.end = "skipped"
                        THEN Append(stdout, "Warning: no mesh objects found")
                        ELSE stdout
    /\ UNCHANGED <<args, objects, linesets, rendered, svg_exists, svg, stages,
                   exit_code>>

\* Lines 412-416: setup_freestyle.
SetupFreestyle ==
    /\ pc = "freestyle"
    /\ linesets' = setup_freestyle(linesets, args)
    /\ pc' = "export"
    /\ UNCHANGED <<args, objects, cam, rendered, svg_exists, svg, stages,
                   stdout, exit_code>>

\* Lines 418-421: setup_svg_export on the lineset named "Edges".
SetupSvgExport ==
    /\ pc = "export"
    /\ linesets' = setup_svg_export(linesets)
    /\ pc' = "render"
    /\ UNCHANGED <<args, objects, cam, rendered, svg_exists, svg, stages,
                   stdout, exit_code>>

\* Lines 431-433: the render; the exporter writes <base>0001.svg, or not.
Render ==
    /\ pc = "render"
    /\ \/ /\ svg_exists' = TRUE
          /\ \E doc \in RawDocuments : rendered' = doc
       \/ /\ svg_exists' = FALSE
          /\ rendered' = <<>>
    /\ pc' = "artifact"
    /\ stdout' = Append(stdout, "Rendering")
    /\ UNCHANGED <<args, objects, cam, linesets, svg, stages, exit_code>>

\* Post-processing that treats an absent group as a failure of the run.
PostprocessSvgFatal ==
    /\ pc = "artifact"
    /\ svg_exists
    /\ LET r == postprocess_svg(rendered, args.fill_color, args.fill_opacity)
           failed == "reordering skipped: group not found" \in Range(r.printed)
       IN  /\ svg' = r.children
           /\ stages' = stages \o r.stages
           /\ stdout' = stdout \o r.printed \o <<"SVG written">>
           /\ pc' = IF failed THEN "exited" ELSE "background"
           /\ exit_code' = IF failed THEN 1 ELSE exit_code
    /\ UNCHANGED <<args, objects, cam, linesets, rendered, svg_exists>>

\* Lines 437-441: the file is there; it is renamed and post-processed.
PostprocessSvg ==
    /\ pc = "artifact"
    /\ svg_exists
    /\ LET r == postprocess_svg(rendered, args.fill_color, args.fill_opacity)
       IN  /\ svg' = r.children
           /\ stages' = stages \o r.stages
           /\ stdout' = stdout \o r.printed \o <<"SVG written">>
    /\ pc' = "background"
    /\ UNCHANGED <<args, objects, cam, linesets, rendered, svg_exists,
                   exit_code>>

\* The missing file reported without leaving main().
MissingArtifactFallsThrough ==
    /\ pc = "artifact"
    /\ ~svg_exists
    /\ stdout' = stdout \o <<"Error: expected SVG not found", "listing">>
    /\ pc' = "background"
    /\ UNCHANGED <<args, objects, cam, linesets, rendered, svg_exists, svg,
                   stages, exit_code>>

\* Lines 442-447: the file is missing; the directory is listed, sys.exit(1).
MissingArtifact ==
    /\ pc = "artifact"
    /\ ~svg_exists
    /\ stdout' = stdout \o <<"Error: expected SVG not found", "listing">>
    /\ exit_code' = 1
    /\ pc' = "exited"
    /\ UNCHANGED <<args, objects, cam, linesets, rendered, svg_exists, svg,
                   stages>>

\* Lines 449-450: add_svg_background, then main() returns.
AddSvgBackground ==
    /\ pc = "background"
    /\ svg' = add_svg_background(svg)
    /\ stages' = Append(stages, "background")
    /\ stdout' = Append(stdout, "Added white background")
    /\ exit_code' = 0
    /\ pc' = "done"
    /\ UNCHANGED <<args, objects, cam, linesets, rendered, svg_exists>>

Next ==
    \/ ImportPart
    \/ SetupCamera
    \/ SetupFreestyle
    \/ SetupSvgExport
    \/ Render
    \/ PostprocessSvg
    \/ MissingArtifact
    \/ AddSvgBackground

Spec == Init /\ [][Next]_vars

\* ------------------------------------------------------------- properties

IsHidden(el) == Contains(<<"Hidden", "Edges">>, el.id)

IsVisible(el) == ~IsHidden(el) /\ Contains(<<"Edges">>, el.id)

HiddenAt(children) == {i \in 1..Len(children) : IsHidden(children[i])}

VisibleAt(children) == {i \in 1..Len(children) : IsVisible(children[i])}

BothGroups(children) == HiddenAt(children) # {} /\ VisibleAt(children) # {}

Keys(children) == [i \in 1..Len(children) |-> children[i].key]

RECURSIVE Without(_, _)
Without(keys, k) ==
    IF keys = <<>> THEN <<>>
    ELSE IF Head(keys) = k THEN Without(Tail(keys), k)
         ELSE <<Head(keys)>> \o Without(Tail(keys), k)

\* Position of the element with key k.
At(children, k) == SetMin({i \in 1..Len(children) : children[i].key = k})

\* postprocess_svg has returned and the translucent path was taken.
Postprocessed == pc = "background" /\ args.fill_opacity < One

\* The reorder stage moved a group in this run.
Moved == "reordered" \in Range(stdout)

\* C1 as claimed: after postprocess_svg with fill_opacity < 1.0, whenever the
\* root has a hidden-edge group and a visible-edge group, the hidden-edge
\* group precedes the visible-edge group, for any number of top-level
\* groups: every hidden-edge group comes before every visible-edge group.
C1_HiddenPrecedesVisible ==
    Postprocessed =>
        \A h \in HiddenAt(svg) : \A v \in VisibleAt(svg) : h < v

\* C1 amended: after postprocess_svg with fill_opacity < 1.0, whenever the
\* raw document has both kinds of group, the hidden-edge group that was last
\* in it precedes the visible-edge group that was last in it; so with one
\* group of each kind the hidden-edge group precedes the visible-edge group.
C1_LastHiddenPrecedesLastVisible ==
    (Postprocessed /\ BothGroups(rendered)) =>
        LET h == rendered[SetMax(HiddenAt(rendered))].key
            v == rendered[SetMax(VisibleAt(rendered))].key
        IN  /\ At(svg, h) < At(svg, v)
            /\ (Cardinality(HiddenAt(svg)) = 1 /\ Cardinality(VisibleAt(svg)) = 1)
                 => \A i \in HiddenAt(svg) : \A j \in VisibleAt(svg) : i < j

C1_Witness ==
    /\ Postprocessed
    /\ Moved
    /\ Cardinality(HiddenAt(svg)) = 1
    /\ Cardinality(VisibleAt(svg)) = 1
    /\ Len(svg) = 2

\* C2 as claimed: with fill_opacity < 1.0 and both groups among the root's
\* children, after the reorder stage the hidden-edge group sits at the index
\* of the visible-edge group minus one, whatever else the root holds (stated
\* for the documents with one group of each kind, where the two are unambiguous).
C2_HiddenImmediatelyBefore ==
    ( /\ Postprocessed
      /\ Cardinality(HiddenAt(svg)) = 1
      /\ Cardinality(VisibleAt(svg)) = 1 ) =>
        SetMax(HiddenAt(svg)) = SetMax(VisibleAt(svg)) - 1

\* C2 amended: when the last hidden-edge group sat after the last
\* visible-edge group, the stage puts it at the index of that visible-edge
\* group minus one; when it already sat before it, the stage leaves the order
\* as it was, other children between the two included.
C2_MovedImmediatelyBefore ==
    (Postprocessed /\ BothGroups(rendered)) =>
        LET h == rendered[SetMax(HiddenAt(rendered))].key
            v == rendered[SetMax(VisibleAt(rendered))].key
        IN  IF At(rendered, h) > At(rendered, v)
            THEN At(svg, h) = At(svg, v) - 1
            ELSE Keys(svg) = Keys(rendered) /\ At(svg, h) < At(svg, v)

C2_Witness ==
    /\ Postprocessed
    /\ Moved
    /\ Len(svg) = 3
    /\ IsVisible(rendered[1])
    /\ rendered[2].id = NoId
    /\ IsHidden(rendered[3])

\* C3 as claimed: the reorder stage leaves a document whose hidden-edge
\* group already precedes its visible-edge group unchanged, and for any
\* document applying it twice gives the order that applying it once gives.
C3_NoOpAndIdempotent ==
    Postprocessed =>
        /\ (BothGroups(rendered)
              /\ SetMax(HiddenAt(rendered)) < SetMax(VisibleAt(rendered)))
             => Keys(svg) = Keys(rendered)
        /\ Keys(reorder_svg_hidden_edges(svg).children) = Keys(svg)

\* C3 amended: the stage leaves a document unchanged when its last
\* hidden-edge group precedes its last visible-edge group; applying it twice
\* gives what applying it once gives for every document with at most one
\* hidden-edge group.
C3_NoOpAndIdempotentOneHidden ==
    Postprocessed =>
        /\ (BothGroups(rendered)
              /\ SetMax(HiddenAt(rendered)) < SetMax(VisibleAt(rendered)))
             => Keys(svg) = Keys(rendered)
        /\ Cardinality(HiddenAt(rendered)) <= 1
             => Keys(reorder_svg_hidden_edges(svg).children) = Keys(svg)

C3_Witness ==
    /\ Postprocessed
    /\ Len(rendered) = 3
    /\ IsHidden(rendered[1])
    /\ rendered[2].id = NoId
    /\ IsVisible(rendered[3])
    /\ "reordering skipped: already before" \in Range(stdout)

\* The children apart from the background rectangle, once it is inserted.
Drawn == IF pc = "done" THEN Tail(svg) ELSE svg

\* main() is past the test of os.path.exists(expected_svg).
PastArtifact == pc \in {"background", "done", "exited"}

\* The reorder stage was asked for and a group it needs is absent.
Mismatch ==
    svg_exists /\ args.fill_opacity < One /\ ~BothGroups(rendered)

\* C4: with fill_opacity < 1.0 and the hidden-edge or the visible-edge group
\* absent, the reorder stage prints its diagnostic and leaves the order of
\* the children alone, the run does not fail, and background injection still
\* runs, so the run ends with the output written.
C4_MismatchIsNotFatal ==
    (Mismatch /\ PastArtifact) =>
        /\ pc \in {"background", "done"}
        /\ exit_code # 1
        /\ "reordering skipped: group not found" \in Range(stdout)
        /\ Keys(Drawn) = Keys(rendered)
        /\ pc = "background" => ENABLED AddSvgBackground
        /\ pc = "done" =>
              /\ exit_code = 0
              /\ svg[1] = Background
              /\ stages = <<"recolor", "opacity", "reorder", "background">>

C4_Witness ==
    /\ Mismatch
    /\ pc = "done"
    /\ VisibleAt(rendered) # {}
    /\ HiddenAt(rendered) = {}

\* C5: in every run that ends successfully, whatever fill_opacity is and
\* whichever stages ran, add_svg_background runs exactly once, after the
\* other stages, and the final root has the background rectangle as its
\* first child and nowhere else.
C5_BackgroundFirstOnce ==
    /\ pc = "done" =>
          /\ svg[1] = Background
          /\ Cardinality({i \in 1..Len(svg) : svg[i] = Background}) = 1
          /\ Keys(Tail(svg)) = Keys(postprocess_svg(rendered, args.fill_color,
                                                    args.fill_opacity).children)
          /\ stages[Len(stages)] = "background"
          /\ Cardinality({i \in 1..Len(stages) : stages[i] = "background"}) = 1
          /\ stages[1] = "recolor"
    /\ pc # "done" =>
          /\ "background" \notin Range(stages)
          /\ \A i \in 1..Len(svg) : svg[i] # Background
    /\ pc = "background" => ENABLED AddSvgBackground

C5_Witness ==
    /\ pc = "done"
    /\ args.fill_opacity = One
    /\ Len(rendered) = 2
    /\ stages = <<"recolor", "background">>

\* setup_freestyle has returned.
Configured == pc \in {"export", "render", "artifact", "background", "done", "exited"}

VisibleRules == {i \in 1..Len(linesets) : linesets[i].visibility = "VISIBLE"}

HiddenRules == {i \in 1..Len(linesets) : linesets[i].visibility = "HIDDEN"}

\* C6: setup_freestyle leaves exactly one visible rule, "Edges" with alpha
\* 1.0; a hidden rule "HiddenEdges" exists if and only if fill_opacity < 1.0;
\* its alpha is fill_opacity, or 1.0 when fill_opacity is 0; its categories
\* and thickness are those of the visible rule.
C6_HiddenEdgeRule ==
    Configured =>
        /\ Cardinality(VisibleRules) = 1
        /\ Len(linesets) = Cardinality(VisibleRules) + Cardinality(HiddenRules)
        /\ \A v \in VisibleRules :
              /\ linesets[v].name = "Edges"
              /\ linesets[v].linestyle.alpha = One
              /\ linesets[v].linestyle.thickness = args.thickness
        /\ (HiddenRules # {}) <=> (args.fill_opacity < One)
        /\ Cardinality(HiddenRules) <= 1
        /\ \A h \in HiddenRules : \A v \in VisibleRules :
              /\ linesets[h].name = "HiddenEdges"
              /\ args.fill_opacity = 0 => linesets[h].linestyle.alpha = One
              /\ args.fill_opacity # 0 =>
                    linesets[h].linestyle.alpha = args.fill_opacity
              /\ linesets[h].select = linesets[v].select
              /\ linesets[h].linestyle.thickness = linesets[v].linestyle.thickness

C6_Witness ==
    /\ pc = "export"
    /\ args.fill_opacity = 0
    /\ HiddenRules # {}
    /\ \E c \in Categories : linesets[1].select[c]

\* C7 as claimed: for any non-empty corner set setup_camera sets an
\* orthographic scale that is strictly positive (a degenerate set is clamped
\* to a positive epsilon), and the shift computation never divides by zero.
C7_OrthoScalePositive ==
    /\ cam.ortho_scale # Unset =>
          cam.ortho_scale[1] > 0 /\ cam.ortho_scale[2] > 0
    /\ pc # "raised"

\* The render has been run.
RenderDone == pc \in {"artifact", "background", "done", "exited"}

\* C8: when the expected SVG file does not exist after the render, main()
\* lists the output directory and exits with status 1, and no
\* post-processing stage runs.
C8_MissingArtifactIsFatal ==
    (RenderDone /\ ~svg_exists) =>
        /\ stages = <<>>
        /\ svg = <<>>
        /\ pc \in {"artifact", "exited"}
        /\ pc = "artifact" => (ENABLED MissingArtifact /\ ~ENABLED PostprocessSvg)
        /\ pc = "exited" =>
              /\ exit_code = 1
              /\ "listing" \in Range(stdout)
              /\ ~ENABLED Next

C8_Witness ==
    /\ pc = "exited"
    /\ ~svg_exists
    /\ exit_code = 1
    /\ args.fill_opacity < One

\* The scene has no mesh object.
NoMesh == \A i \in 1..Len(objects) : objects[i].type # "MESH"

\* setup_camera has been called.
Framed == pc \notin {"import", "camera"}

\* C9: with no mesh object in the scene setup_camera prints a warning and
\* returns without setting location, orthographic scale or shift, nothing is
\* raised, and main() goes on to setup_freestyle and to the render.
C9_DegradedFramingIsNotFatal ==
    (Framed /\ NoMesh) =>
        /\ pc # "raised"
        /\ "Warning: no mesh objects found" \in Range(stdout)
        /\ cam.name = "IsoCam"
        /\ cam.location = Unset
        /\ cam.ortho_scale = Unset
        /\ cam.shift_x = Unset
        /\ cam.shift_y = Unset
        /\ pc = "freestyle" => ENABLED SetupFreestyle
        /\ pc = "export" => ENABLED SetupSvgExport
        /\ pc = "render" => ENABLED Render

C9_Witness ==
    /\ NoMesh
    /\ Len(objects) = 1
    /\ pc = "artifact"
    /\ "Rendering" \in Range(stdout)

\* C10: the reorder stage neither adds, removes nor duplicates a top-level
\* child; the children afterwards are the children before with at most the
\* hidden-edge group matched last in another place, every other child, the
\* visible-edge group included, in the order it had.
C10_ReorderFrame ==
    Postprocessed =>
        LET h == IF HiddenAt(rendered) = {} THEN 0
                 ELSE rendered[SetMax(HiddenAt(rendered))].key
        IN  /\ Len(svg) = Len(rendered)
            /\ Range(Keys(svg)) = Range(Keys(rendered))
            /\ \A i \in 1..Len(svg) : svg[i].id = rendered[At(rendered, svg[i].key)].id
            /\ Without(Keys(svg), h) = Without(Keys(rendered), h)

C10_Witness ==
    /\ Postprocessed
    /\ Moved
    /\ Len(rendered) = 3
    /\ Cardinality(HiddenAt(rendered)) = 2
    /\ Keys(svg) # Keys(rendered)

====
